---- MODULE Spec2Model ----
(***************************************************************************)
(* TCPHandoff front end: the connection herders                           *)
(* (src/frontend/tcpha_fe_client_connection.c) and the tcp eventpoll       *)
(* (src/tcpha_fe_poll.c).                                                  *)
(*                                                                         *)
(* The specifications share the state and the operations:                  *)
(*   Spec        the herder pool: tcpha_fe_conn_create, tcpha_fe_conn_-    *)
(*               destroy, tcpha_fe_herder_run and the socket wakeup        *)
(*               callback running together;                                *)
(*   PoolSpec    the pool with destroy_connections beside it, FairSpec     *)
(*               with every thread scheduled;                              *)
(*   RunSpec     the pool with the herder kthreads scheduled;              *)
(*   InitSpec    init_connections from module load, then the pool;         *)
(*   CacheSpec   one herder list from init_connections to destroy_-        *)
(*               connections, alone or beside lists set up before it;      *)
(*   EngineSpec  one eventpoll driven through its own interface:           *)
(*               tcp_epoll_insert, tcp_epoll_remove, tcp_epoll_wait and    *)
(*               the wakeup callback;                                      *)
(*   RaceSpec    two callers of tcp_epoll_insert on one eventpoll, the     *)
(*               walk and the link of tcp_ep_hash_insert as two steps.     *)
(*                                                                         *)
(* tcpha_fe_conn_create hands the connection to tcp_epoll_insert where a   *)
(* struct socket * is declared (line 243 against line 158); the model      *)
(* reads the remote endpoint and the sleep queue of the connection's       *)
(* socket, which is what the call is written to watch.                     *)
(***************************************************************************)
EXTENDS Integers, Sequences, FiniteSets, TLC

\* ------------------------------------------------------------- bounds
\* online cpus: init_connections makes one herder for each
NumCpus == 2
\* sockets the packet filter hands over in one run of the pool
MaxSocks == 3
\* sockets of one run of the eventpoll interface
MaxEpSocks == 3
\* objects the tcp_ep_item cache can hold before kmem_cache_alloc fails
MaxItems == 4
\* the wakeup callback is not invoked on an item whose usecnt reached this
MaxUsecnt == 2
\* sockets (the first ones) whose state the network stack changes
MaxWakeSocks == 1
\* herder lists besides the modelled one that init_connections has set up
\* before the modelled one comes
MaxOtherLists == 1

NIL == 0
MAX_INT == 2147483647
ENOMEM == 12
MAX_EVENTS == 1024

Herders == 1..NumCpus
Socks == 1..(IF MaxSocks > MaxEpSocks THEN MaxSocks ELSE MaxEpSocks)
Items == 1..MaxItems
AppThreads == {"a1"}
\* the contexts that call tcp_epoll_insert when two cpus do so at once
Dispatchers == {"a1", "a2"}
Threads == Dispatchers \cup {"td"}

POLLIN == "POLLIN"
POLLERR == "POLLERR"
POLLHUP == "POLLHUP"
\* what sock->ops->poll can report for a socket of the model
Readiness == {{}, {POLLIN}}

\* remote endpoints: daddr is a __u32 kept as its two 16-bit halves
\* <<high, low>>, dport a __u16.  10.0.0.1:5000, 10.0.0.1:5001 and
\* 138.0.0.1:5000 (the first address plus 2^31).
Keys ==
    { [daddr |-> <<2560, 1>>, dport |-> 5000],
      [daddr |-> <<2560, 1>>, dport |-> 5001],
      [daddr |-> <<35328, 1>>, dport |-> 5000] }

\* the remote endpoints of the sockets handed to the herder pool
PoolKeys ==
    { [daddr |-> <<2560, 1>>, dport |-> 5000],
      [daddr |-> <<2560, 1>>, dport |-> 5001] }

VARIABLES
    herder_list,   \* struct herder_list .list: herder ids, head first
    herders,       \* struct tcpha_fe_herder, by cpu
    eps,           \* struct tcp_eventpoll of each herder
    items,         \* struct tcp_ep_item, by slot of tcp_ep_item_cachep
    socks,         \* struct socket: remote endpoint, poll state, sk_sleep
    conns,         \* struct tcpha_fe_conn, one slot for each socket
    caches,        \* the kmem caches and their use counters; other_lists,
                   \* the herder lists besides the modelled one that are
                   \* set up and hold the caches
    pc,            \* where each thread stands
    loc,           \* each thread's local variables
    hthread,       \* each herder's kthread: position and numevents
    cb,            \* the wakeup callback's context (interrupt)
    last,          \* the last interface call that returned, by thread
    snap,          \* the eventpoll as it was when tcp_epoll_insert was called
    errs           \* memory errors that happened

vars == <<herder_list, herders, eps, items, socks, conns, caches, pc, loc,
          hthread, cb, last, snap, errs>>

\* ------------------------------------------------------------ records
NoItem ==
    [live |-> FALSE, sock |-> NIL, event_flags |-> {}, usecnt |-> 0,
     eventpoll |-> NIL, rb_left |-> NIL, rb_right |-> NIL, rb_parent |-> NIL,
     rb_color |-> "red"]

NoSock == [state |-> "none", key |-> [daddr |-> <<0, 0>>, dport |-> 0],
           poll |-> {}, sk_sleep |-> <<>>]

NoConn == [state |-> "none", csock |-> NIL, alive |-> 0]

\* parent and side: the locals parent and p of tcp_ep_hash_insert, the slot
\* (parent's left or right link, the root's when parent is NULL) its walk
\* ended at
NoLoc == [op |-> "none", sock |-> NIL, herder |-> NIL, item |-> NIL, flags |-> {},
          parent |-> NIL, side |-> "left"]

\* a returned call: its value (ret), what the eventpoll call inside it
\* returned (err), the item it allocated or found; for tcp_epoll_wait the
\* sockets array (out), maxevents and the sockets that were due, those whose
\* item was on the ready list with its socket ready; for tcp_epoll_remove
\* whether the wakeup callback of the socket was running when it returned
NoLast == [op |-> "none", sock |-> NIL, ret |-> 0, err |-> 0, item |-> NIL,
           out |-> {}, maxevents |-> 0, due |-> {}, raced |-> FALSE]

\* the eventpoll when tcp_epoll_insert was last called, for socket sock:
\* present, an item of the same remote endpoint was in the index;
\* registered, an item of the socket itself was; removed, tcp_epoll_remove
\* of the socket has returned since
NoSnap == [sock |-> NIL, index |-> [root |-> NIL, nodes |-> <<>>],
           ready |-> <<>>, sleep |-> <<>>, present |-> FALSE,
           registered |-> FALSE, removed |-> FALSE]

SeqToSet(s) == { s[k] : k \in 1..Len(s) }

RemoveFromSeq(s, x) == SelectSeq(s, LAMBDA y : y # x)

\* ------------------------------------------------ tcp_cmp_sock (pure)
\* leftsk->daddr - rightsk->daddr in __u32, by halves
Diff32(a, b) ==
    LET lo == (a[2] - b[2]) % 65536
        borrow == IF a[2] < b[2] THEN 1 ELSE 0
        hi == (a[1] - b[1] - borrow) % 65536
    IN  <<hi, lo>>

\* the __u32 returned as int
ToInt(d) ==
    IF d[1] >= 32768 THEN (d[1] - 65536) * 65536 + d[2] ELSE d[1] * 65536 + d[2]

CmpKey(lk, rk) ==
    LET diff == Diff32(lk.daddr, rk.daddr)
    IN  IF diff = <<0, 0>> THEN lk.dport - rk.dport ELSE ToInt(diff)

tcp_cmp_sock(leftsock, rightsock) ==
    CmpKey(socks[leftsock].key, socks[rightsock].key)

\* --------------------------------------------- the rb tree (the "hash")
\* A tree is [root, its]: hash_root.rb_node and the items' hash_node fields.
SetColor(T, n, c) == [T EXCEPT !.its[n].rb_color = c]

SetParent(T, n, p) ==
    IF n = NIL THEN T ELSE [T EXCEPT !.its[n].rb_parent = p]

\* make `new` the child that `old` was of `parent` (the root when parent is NIL)
Relink(T, parent, old, new) ==
    IF parent = NIL THEN [T EXCEPT !.root = new]
    ELSE IF T.its[parent].rb_left = old
         THEN [T EXCEPT !.its[parent].rb_left = new]
         ELSE [T EXCEPT !.its[parent].rb_right = new]

rb_rotate_left(T, node) ==
    LET right == T.its[node].rb_right
        parent == T.its[node].rb_parent
        inner == T.its[right].rb_left
        T1 == SetParent([T EXCEPT !.its[node].rb_right = inner], inner, node)
        T2 == SetParent([T1 EXCEPT !.its[right].rb_left = node], right, parent)
    IN  SetParent(Relink(T2, parent, node, right), node, right)

rb_rotate_right(T, node) ==
    LET left == T.its[node].rb_left
        parent == T.its[node].rb_parent
        inner == T.its[left].rb_right
        T1 == SetParent([T EXCEPT !.its[node].rb_left = inner], inner, node)
        T2 == SetParent([T1 EXCEPT !.its[left].rb_right = node], left, parent)
    IN  SetParent(Relink(T2, parent, node, left), node, left)

IsRed(T, n) == n # NIL /\ T.its[n].rb_color = "red"

RECURSIVE rb_insert_color(_, _)
rb_insert_color(T, node) ==
    LET parent == T.its[node].rb_parent IN
    IF ~IsRed(T, parent)
    THEN SetColor(T, T.root, "black")
    ELSE
      LET gparent == T.its[parent].rb_parent IN
      IF parent = T.its[gparent].rb_left
      THEN
        LET uncle == T.its[gparent].rb_right IN
        IF IsRed(T, uncle)
        THEN rb_insert_color(
                 SetColor(SetColor(SetColor(T, uncle, "black"), parent, "black"),
                          gparent, "red"),
                 gparent)
        ELSE
          LET inner == T.its[parent].rb_right = node
              T1 == IF inner THEN rb_rotate_left(T, parent) ELSE T
              p1 == IF inner THEN node ELSE parent
              n1 == IF inner THEN parent ELSE node
              T2 == SetColor(SetColor(T1, p1, "black"), gparent, "red")
          IN  rb_insert_color(rb_rotate_right(T2, gparent), n1)
      ELSE
        LET uncle == T.its[gparent].rb_left IN
        IF IsRed(T, uncle)
        THEN rb_insert_color(
                 SetColor(SetColor(SetColor(T, uncle, "black"), parent, "black"),
                          gparent, "red"),
                 gparent)
        ELSE
          LET inner == T.its[parent].rb_left = node
              T1 == IF inner THEN rb_rotate_right(T, parent) ELSE T
              p1 == IF inner THEN node ELSE parent
              n1 == IF inner THEN parent ELSE node
              T2 == SetColor(SetColor(T1, p1, "black"), gparent, "red")
          IN  rb_insert_color(rb_rotate_left(T2, gparent), n1)

\* rb_link_node: the new node is red, has no children, hangs below parent
rb_link_node(T, node, parent, side) ==
    LET T1 == [T EXCEPT !.its[node].rb_parent = parent,
                        !.its[node].rb_color = "red",
                        !.its[node].rb_left = NIL,
                        !.its[node].rb_right = NIL]
    IN  IF parent = NIL THEN [T1 EXCEPT !.root = node]
        ELSE IF side = "left" THEN [T1 EXCEPT !.its[parent].rb_left = node]
        ELSE [T1 EXCEPT !.its[parent].rb_right = node]

\* the while loop of tcp_ep_hash_insert from *p = n: where the item is to be
\* linked, or dup when an item of the same endpoint stands on the way
RECURSIVE InsertDescend(_, _, _, _, _)
InsertDescend(T, n, parent, side, item) ==
    IF n = NIL THEN [dup |-> FALSE, parent |-> parent, side |-> side]
    ELSE
      LET cmp == tcp_cmp_sock(T.its[n].sock, T.its[item].sock) IN
      IF cmp = 0 THEN [dup |-> TRUE, parent |-> n, side |-> side]
      ELSE IF cmp > 0
           THEN InsertDescend(T, T.its[n].rb_right, n, "right", item)
           ELSE InsertDescend(T, T.its[n].rb_left, n, "left", item)

\* tcp_ep_hash_insert: [err, T]
tcp_ep_hash_insert(T, item) ==
    LET d == InsertDescend(T, T.root, NIL, "left", item) IN
    IF d.dup THEN [err |-> -1, T |-> T]
    ELSE [err |-> 0,
          T |-> rb_insert_color(rb_link_node(T, item, d.parent, d.side), item)]

\* the while loop of tcp_ep_hash_find from rbn = n
RECURSIVE FindDescend(_, _, _)
FindDescend(T, n, sock) ==
    IF n = NIL THEN NIL
    ELSE
      LET cmp == tcp_cmp_sock(sock, T.its[n].sock) IN
      IF cmp = 0 THEN n
      ELSE IF cmp < 0 THEN FindDescend(T, T.its[n].rb_left, sock)
           ELSE FindDescend(T, T.its[n].rb_right, sock)

tcp_ep_hash_find(T, sock) == FindDescend(T, T.root, sock)

\* the items linked below n, n included
RECURSIVE Subtree(_, _)
Subtree(T, n) ==
    IF n = NIL THEN {}
    ELSE {n} \cup Subtree(T, T.its[n].rb_left) \cup Subtree(T, T.its[n].rb_right)

TreeOf(h) == [root |-> eps[h].hash_root, its |-> items]

\* the items of herder h's index
Index(h) == Subtree(TreeOf(h), eps[h].hash_root)

\* ------------------------------------------------------------- Init
\* The state init_connections leaves when it returns 0: the caches made,
\* one herder for each online cpu (list_add puts each at the head of the
\* list), each with an empty pool, a fresh eventpoll from tcp_epoll_init and
\* its kthread woken.
\* processor_work is the workqueue the herder submits to, kept as the jobs
\* queued on it
InitHerder ==
    [alive |-> TRUE, pool_size |-> 0, conn_pool |-> <<>>, pool_lock |-> "free",
     should_stop |-> FALSE, processor_work |-> <<>>]

InitEventpoll ==
    [alive |-> TRUE, hash_root |-> NIL, ready_list |-> <<>>, should_wake |-> FALSE]

Init ==
    /\ herder_list = [k \in 1..NumCpus |-> NumCpus + 1 - k]
    /\ herders = [h \in Herders |-> InitHerder]
    /\ eps = [h \in Herders |-> InitEventpoll]
    /\ items = [i \in Items |-> NoItem]
    /\ socks = [s \in Socks |-> NoSock]
    /\ conns = [c \in Socks |-> NoConn]
    /\ caches = [tcpha_fe_conn_cachep |-> "live", work_struct_cachep |-> "live",
                 tcp_ep_item_cachep |-> "live", mem_cache_use |-> 1,
                 item_cache_use |-> NumCpus, other_lists |-> 0]
    /\ pc = [t \in Threads |-> "idle"]
    /\ loc = [t \in Threads |-> NoLoc]
    /\ hthread = [h \in Herders |-> "run"]
    /\ cb = [pc |-> "idle", queue |-> <<>>, mask |-> {}]
    /\ last = [t \in Threads |-> NoLast]
    /\ snap = NoSnap
    /\ errs = {}

\* ---------------------------------------------------- shared helpers
\* a thread leaves the interface call it was in with value ret; err is what
\* the eventpoll call inside it returned
Return(t, ret, err) ==
    /\ pc' = [pc EXCEPT ![t] = "idle"]
    /\ last' = [last EXCEPT ![t] =
                   [NoLast EXCEPT !.op = loc[t].op, !.sock = loc[t].sock,
                                  !.ret = ret, !.err = err, !.item = loc[t].item,
                                  !.raced = /\ loc[t].op = "ep_remove"
                                            /\ cb.pc # "idle"
                                            /\ items[Head(cb.queue)].sock = loc[t].sock]]
    /\ loc' = [loc EXCEPT ![t] = NoLoc]

\* a NULL pointer is dereferenced: the kernel stops the thread there
Oops(t) ==
    /\ pc' = [pc EXCEPT ![t] = "oops"]
    /\ errs' = errs \cup {"null_deref"}

\* memory of a herder (and of its eventpoll) that was freed is touched
HerderUse(h) == IF herders[h].alive THEN {} ELSE {"uaf_herder"}

\* the socket nobody has handed over yet with the lowest number
FreshSock(max) ==
    IF \E s \in 1..max : socks[s].state = "none"
    THEN CHOOSE s \in 1..max :
             socks[s].state = "none" /\ \A r \in 1..(s - 1) : socks[r].state # "none"
    ELSE NIL

\* the free slot of tcp_ep_item_cachep with the lowest number
FreeItem ==
    IF \E i \in Items : ~items[i].live
    THEN CHOOSE i \in Items : ~items[i].live /\ \A j \in 1..(i - 1) : items[j].live
    ELSE NIL

\* ------------------------------------------- tcpha_fe_conn_create
\* the scan for the least loaded pool (lines 216-225): the first herder of
\* the list whose pool_size is below every one met before it
RECURSIVE ScanLeastLoaded(_, _, _)
ScanLeastLoaded(list, min_pool_size, least_loaded) ==
    IF list = <<>> THEN least_loaded
    ELSE
      LET herder_pool_size == herders[Head(list)].pool_size IN
      IF herder_pool_size < min_pool_size
      THEN ScanLeastLoaded(Tail(list), herder_pool_size, Head(list))
      ELSE ScanLeastLoaded(Tail(list), min_pool_size, least_loaded)

MutScanNoMinUpdate(list) ==
    IF list = <<>> THEN NIL ELSE list[Len(list)]

LeastLoaded(list) == ScanLeastLoaded(list, MAX_INT, NIL)

\* The packet filter hands over a new socket with remote endpoint key and
\* calls tcpha_fe_conn_create: kmem_cache_alloc of the connection and its
\* set up (lines 203-212).  When the allocation fails, connection is NULL
\* and line 208 writes through it.
ConnCreate(t) ==
    /\ pc[t] = "idle"
    /\ FreshSock(MaxSocks) # NIL
    /\ \E key \in PoolKeys, ready \in Readiness, ok \in BOOLEAN :
         LET s == FreshSock(MaxSocks) IN
         /\ socks' = [socks EXCEPT ![s] = [state |-> "open", key |-> key,
                                           poll |-> ready, sk_sleep |-> <<>>]]
         /\ loc' = [loc EXCEPT ![t] = [NoLoc EXCEPT !.op = "conn_create",
                                                    !.sock = s]]
         /\ IF ok
            THEN /\ conns' = [conns EXCEPT ![s] = [state |-> "live", csock |-> s,
                                                   alive |-> 2]]
                 /\ pc' = [pc EXCEPT ![t] = "cc_scan"]
                 /\ errs' = errs
            ELSE /\ Oops(t)
                 /\ conns' = conns
    /\ UNCHANGED <<herder_list, herders, eps, items, caches, hthread, cb, last, snap>>

\* read_lock, the scan, read_unlock (lines 215-226); nobody write-locks the
\* list after init_connections returned
CcScan(t) ==
    /\ pc[t] = "cc_scan"
    /\ loc' = [loc EXCEPT ![t].herder = LeastLoaded(herder_list)]
    /\ pc' = [pc EXCEPT ![t] = IF LeastLoaded(herder_list) # NIL
                               THEN "cc_lock" ELSE "cc_nolist"]
    /\ UNCHANGED <<herder_list, herders, eps, items, socks, conns, caches,
                   hthread, cb, last, snap, errs>>

\* least_loaded is NULL: line 243 reads least_loaded->eventpoll
CcNoHerder(t) ==
    /\ pc[t] = "cc_nolist"
    /\ Oops(t)
    /\ UNCHANGED <<herder_list, herders, eps, items, socks, conns, caches, loc,
                   hthread, cb, last, snap>>

\* write_lock(&least_loaded->pool_lock) (line 232)
CcLock(t) ==
    /\ pc[t] = "cc_lock"
    /\ herders[loc[t].herder].pool_lock = "free"
    /\ herders' = [herders EXCEPT ![loc[t].herder].pool_lock = t]
    /\ errs' = errs \cup HerderUse(loc[t].herder)
    /\ pc' = [pc EXCEPT ![t] = "cc_link"]
    /\ UNCHANGED <<herder_list, eps, items, socks, conns, caches, loc, hthread,
                   cb, last, snap>>

\* list_add(&connection->list, &least_loaded->conn_pool) (line 233)
CcLink(t) ==
    /\ pc[t] = "cc_link"
    /\ herders' = [herders EXCEPT ![loc[t].herder].conn_pool = <<loc[t].sock>> \o @]
    /\ errs' = errs \cup HerderUse(loc[t].herder)
    /\ pc' = [pc EXCEPT ![t] = "cc_inc"]
    /\ UNCHANGED <<herder_list, eps, items, socks, conns, caches, loc, hthread,
                   cb, last, snap>>

\* atomic_inc(&least_loaded->pool_size) (line 234)
CcInc(t) ==
    /\ pc[t] = "cc_inc"
    /\ herders' = [herders EXCEPT ![loc[t].herder].pool_size = @ + 1]
    /\ errs' = errs \cup HerderUse(loc[t].herder)
    /\ pc' = [pc EXCEPT ![t] = "cc_unlock"]
    /\ UNCHANGED <<herder_list, eps, items, socks, conns, caches, loc, hthread,
                   cb, last, snap>>

\* write_unlock (line 235), then the call of tcp_epoll_insert (line 243)
CcUnlock(t) ==
    /\ pc[t] = "cc_unlock"
    /\ herders' = [herders EXCEPT ![loc[t].herder].pool_lock = "free"]
    /\ errs' = errs \cup HerderUse(loc[t].herder)
    /\ loc' = [loc EXCEPT ![t].flags = {POLLIN}]
    /\ pc' = [pc EXCEPT ![t] = "ei_alloc"]
    /\ UNCHANGED <<herder_list, eps, items, socks, conns, caches, hthread,
                   cb, last, snap>>

\* ------------------------------------------------- tcp_epoll_insert
\* tcp_epoll_insert returns err to its caller: tcpha_fe_conn_create drops
\* the value and returns 0 (lines 243-245)
InsertReturn(t, err) ==
    Return(t, IF loc[t].op = "conn_create" THEN 0 ELSE err, err)

\* tcp_ep_item_free: the reference is dropped, the last one frees the slot
tcp_ep_item_free(its, item) ==
    IF item = NIL THEN its
    ELSE IF its[item].usecnt - 1 = 0
         THEN [its EXCEPT ![item] = NoItem]
         ELSE [its EXCEPT ![item].usecnt = @ - 1]

\* get_ep_item
get_ep_item(its, item) == [its EXCEPT ![item].usecnt = @ + 1]

\* tcp_epoll_check_events: the flags of interest the socket's poll reports
tcp_epoll_check_events(item) ==
    IF items[item].sock = NIL THEN {}
    ELSE items[item].event_flags \cap socks[items[item].sock].poll

\* add_item_to_readylist: list_add_tail under list_lock
add_item_to_readylist(es, item) ==
    [es EXCEPT ![items[item].eventpoll].ready_list = Append(@, item)]

\* a freed item is touched
ItemUse(item) == IF items[item].live THEN {} ELSE {"uaf_item"}

\* tcp_ep_item_alloc and the set up of the item (lines 165-177): -1 without
\* a cache, -ENOMEM when kmem_cache_alloc fails, else usecnt 1, the node
\* its own parent (tcp_ep_rb_initnode), flags | POLLERR | POLLHUP
EiAlloc(t) ==
    /\ pc[t] = "ei_alloc"
    /\   IF caches.tcp_ep_item_cachep = "null"
         THEN /\ InsertReturn(t, -1)
              /\ items' = items
         ELSE IF FreeItem = NIL
         THEN /\ InsertReturn(t, -ENOMEM)
              /\ items' = items
         ELSE /\ items' = [items EXCEPT ![FreeItem] =
                     [NoItem EXCEPT !.live = TRUE, !.sock = loc[t].sock,
                                    !.event_flags = loc[t].flags \cup {POLLERR, POLLHUP},
                                    !.usecnt = 1, !.eventpoll = loc[t].herder,
                                    !.rb_parent = FreeItem]]
              /\ loc' = [loc EXCEPT ![t].item = FreeItem]
              /\ pc' = [pc EXCEPT ![t] = "ei_hash"]
              /\ last' = last
    /\ errs' = errs \cup HerderUse(loc[t].herder)
                    \cup (IF caches.tcp_ep_item_cachep = "destroyed"
                          THEN {"uaf_cache"} ELSE {})
    /\ UNCHANGED <<herder_list, herders, eps, socks, conns, caches, hthread, cb,
                   snap>>

\* tcp_ep_hash_insert (line 180); on failure insert_fail frees the item and
\* returns err (lines 196-198)
EiHash(t) ==
    /\ pc[t] = "ei_hash"
    /\ LET h == loc[t].herder
           r == tcp_ep_hash_insert(TreeOf(h), loc[t].item)
       IN  IF r.err # 0
           THEN /\ items' = tcp_ep_item_free(items, loc[t].item)
                /\ InsertReturn(t, r.err)
                /\ eps' = eps
           ELSE /\ items' = r.T.its
                /\ eps' = [eps EXCEPT ![h].hash_root = r.T.root]
                /\ pc' = [pc EXCEPT ![t] = "ei_check"]
                /\ UNCHANGED <<loc, last>>
    /\ errs' = errs \cup HerderUse(loc[t].herder)
    /\ UNCHANGED <<herder_list, herders, socks, conns, caches, hthread, cb, snap>>

\* tcp_ep_hash_insert when another cpu may be inside it too: no lock is
\* taken on the way from tcp_epoll_insert (ep->lock is initialised at line
\* 78 and never locked), so the walk (lines 321-328) and the linking (lines
\* 330-331) of one caller are steps the other caller's can come between.
\* The walk: -1 at an item of the same endpoint (insert_fail frees the new
\* item), else parent and p stay in the locals.
EiDescend(t) ==
    /\ pc[t] = "ei_hash"
    /\ LET T == TreeOf(loc[t].herder)
           d == InsertDescend(T, T.root, NIL, "left", loc[t].item)
       IN  IF d.dup
           THEN /\ items' = tcp_ep_item_free(items, loc[t].item)
                /\ InsertReturn(t, -1)
           ELSE /\ loc' = [loc EXCEPT ![t].parent = d.parent, ![t].side = d.side]
                /\ pc' = [pc EXCEPT ![t] = "ei_link"]
                /\ UNCHANGED <<items, last>>
    /\ UNCHANGED <<herder_list, herders, eps, socks, conns, caches, hthread, cb,
                   snap, errs>>

\* rb_link_node(&item->hash_node, parent, p) writes the slot the walk ended
\* at, whatever hangs there by now, and rb_insert_color rebalances
EiLink(t) ==
    /\ pc[t] = "ei_link"
    /\ LET h == loc[t].herder
           T == rb_insert_color(
                    rb_link_node(TreeOf(h), loc[t].item, loc[t].parent, loc[t].side),
                    loc[t].item)
       IN  /\ items' = T.its
           /\ eps' = [eps EXCEPT ![h].hash_root = T.root]
    /\ pc' = [pc EXCEPT ![t] = "ei_check"]
    /\ UNCHANGED <<herder_list, herders, socks, conns, caches, loc, hthread, cb,
                   last, snap, errs>>

\* the readiness check at insert (lines 185-187)
EiCheck(t) ==
    /\ pc[t] = "ei_check"
    /\ eps' = IF tcp_epoll_check_events(loc[t].item) # {}
              THEN add_item_to_readylist(eps, loc[t].item)
              ELSE eps
    /\ errs' = errs \cup HerderUse(loc[t].herder)
    /\ pc' = [pc EXCEPT ![t] = "ei_wait"]
    /\ UNCHANGED <<herder_list, herders, items, socks, conns, caches, loc,
                   hthread, cb, last, snap>>

\* add_wait_queue(item->whead, &item->wait) puts the entry at the head of
\* the socket's sleep queue (line 190); return 0
EiAddWait(t) ==
    /\ pc[t] = "ei_wait"
    /\ socks' = [socks EXCEPT ![loc[t].sock].sk_sleep = <<loc[t].item>> \o @]
    /\ InsertReturn(t, 0)
    /\ UNCHANGED <<herder_list, herders, eps, items, conns, caches, hthread, cb,
                   snap, errs>>

\* ------------------------------------------------- tcp_epoll_remove
\* tcp_ep_hash_find starts with rbn = &eventpoll->hash_root.rb_node (line
\* 355), the address of the root pointer, where the loop wants a node: the
\* first turn reads item->sock, rbn->rb_left and rbn->rb_right out of the
\* eventpoll itself.  What comes of it depends on what lies there: the walk
\* gets to the root node and goes on as written ("node"), it reads a NULL
\* link and ends with no item ("null"), or tcp_cmp_sock reads through a
\* word that is no socket and the kernel stops the thread ("fault").
FindStart == {"node", "null", "fault"}

\* tcp_ep_hash_find(sock) (line 207)
ErFind(t) ==
    /\ pc[t] = "er_find"
    /\ \E start \in FindStart :
         IF start = "fault"
         THEN /\ pc' = [pc EXCEPT ![t] = "oops"]
              /\ errs' = errs \cup HerderUse(loc[t].herder) \cup {"wild_read"}
              /\ loc' = loc
         ELSE /\ loc' = [loc EXCEPT ![t].item =
                            IF start = "node"
                            THEN tcp_ep_hash_find(TreeOf(loc[t].herder), loc[t].sock)
                            ELSE NIL]
              /\ errs' = errs \cup HerderUse(loc[t].herder)
              /\ pc' = [pc EXCEPT ![t] = "er_ret"]
    /\ UNCHANGED <<herder_list, herders, eps, items, socks, conns, caches,
                   hthread, cb, last, snap>>

\* lines 210-222: return when no item was found, and return after the
\* comments when one was; nothing is unlinked, detached or freed
ErReturn(t) ==
    /\ pc[t] = "er_ret"
    /\ IF loc[t].op = "ep_remove"
       THEN /\ Return(t, 0, 0)
            /\ snap' = IF snap.sock = loc[t].sock
                       THEN [snap EXCEPT !.removed = TRUE] ELSE snap
       ELSE /\ pc' = [pc EXCEPT ![t] = "cd_lock"]
            /\ UNCHANGED <<loc, last, snap>>
    /\ UNCHANGED <<herder_list, herders, eps, items, socks, conns, caches,
                   hthread, cb, errs>>

\* --------------------------------------------------- tcp_epoll_wait
\* lines 230-233: return -1, the sockets array as it was
tcp_epoll_wait(ep, maxevents) == [ret |-> -1, sockets |-> {}]

\* ------------------------------------------------- tcp_epoll_wakeup
\* The network stack changes the state of socket s to ready and wakes the
\* socket's sleep queue: the callback of each entry is to run, head first.
SockEvent(s, ready) ==
    /\ socks[s].state = "open"
    /\ cb.pc = "idle"
    /\ \A k \in 1..Len(socks[s].sk_sleep) :
           items[socks[s].sk_sleep[k]].usecnt < MaxUsecnt
    /\ socks' = [socks EXCEPT ![s].poll = ready]
    /\ cb' = [pc |-> IF socks[s].sk_sleep = <<>> THEN "idle" ELSE "get",
              queue |-> socks[s].sk_sleep, mask |-> {}]
    /\ UNCHANGED <<herder_list, herders, eps, items, conns, caches, pc, loc,
                   hthread, last, snap, errs>>

\* tcp_ep_item_from_wait and get_ep_item (lines 284-285)
CbGet ==
    /\ cb.pc = "get"
    /\ items' = get_ep_item(items, Head(cb.queue))
    /\ errs' = errs \cup ItemUse(Head(cb.queue))
    /\ cb' = [cb EXCEPT !.pc = "check"]
    /\ UNCHANGED <<herder_list, herders, eps, socks, conns, caches, pc, loc,
                   hthread, last, snap>>

\* mask = tcp_epoll_check_events(item); a printk when it is not 0
\* (lines 286-290)
CbCheck ==
    /\ cb.pc = "check"
    /\ cb' = [cb EXCEPT !.pc = "ret", !.mask = tcp_epoll_check_events(Head(cb.queue))]
    /\ errs' = errs \cup ItemUse(Head(cb.queue))
    /\ UNCHANGED <<herder_list, herders, eps, items, socks, conns, caches, pc,
                   loc, hthread, last, snap>>

\* return 1 (line 292): the next entry of the sleep queue is called
CbReturn ==
    /\ cb.pc = "ret"
    /\ cb' = [pc |-> IF Tail(cb.queue) = <<>> THEN "idle" ELSE "get",
              queue |-> Tail(cb.queue), mask |-> {}]
    /\ UNCHANGED <<herder_list, herders, eps, items, socks, conns, caches, pc,
                   loc, hthread, last, snap, errs>>

\* --------------------------------------------- tcpha_fe_conn_destroy
\* A worker is done with connection c of herder h and calls
\* tcpha_fe_conn_destroy(herder, conn); tcp_epoll_remove comes first
\* (line 252).
ConnDestroy(t, h, c) ==
    /\ pc[t] = "idle"
    /\ herders[h].alive
    /\ conns[c].state = "live"
    /\ c \in SeqToSet(herders[h].conn_pool)
    /\ loc' = [loc EXCEPT ![t] = [NoLoc EXCEPT !.op = "conn_destroy", !.sock = c,
                                               !.herder = h]]
    /\ pc' = [pc EXCEPT ![t] = "er_find"]
    /\ UNCHANGED <<herder_list, herders, eps, items, socks, conns, caches,
                   hthread, cb, last, snap, errs>>

\* write_lock(&herder->pool_lock) (line 254)
CdLock(t) ==
    /\ pc[t] = "cd_lock"
    /\ herders[loc[t].herder].pool_lock = "free"
    /\ herders' = [herders EXCEPT ![loc[t].herder].pool_lock = t]
    /\ errs' = errs \cup HerderUse(loc[t].herder)
    /\ pc' = [pc EXCEPT ![t] = "cd_del"]
    /\ UNCHANGED <<herder_list, eps, items, socks, conns, caches, loc, hthread,
                   cb, last, snap>>

\* list_del(&conn->list) (line 255); pool_size is not touched
CdDel(t) ==
    /\ pc[t] = "cd_del"
    /\ herders' = [herders EXCEPT ![loc[t].herder].conn_pool =
                       RemoveFromSeq(@, loc[t].sock)]
    /\ errs' = errs \cup HerderUse(loc[t].herder)
    /\ pc' = [pc EXCEPT ![t] = "cd_unlock"]
    /\ UNCHANGED <<herder_list, eps, items, socks, conns, caches, loc, hthread,
                   cb, last, snap>>

\* write_unlock (line 256)
CdUnlock(t) ==
    /\ pc[t] = "cd_unlock"
    /\ herders' = [herders EXCEPT ![loc[t].herder].pool_lock = "free"]
    /\ errs' = errs \cup HerderUse(loc[t].herder)
    /\ pc' = [pc EXCEPT ![t] = "cd_release"]
    /\ UNCHANGED <<herder_list, eps, items, socks, conns, caches, loc, hthread,
                   cb, last, snap>>

\* sock_release(conn->csock), csock = NULL, the header freed, the
\* connection back to its cache (lines 258-266).  Inside herder_destroy the
\* walk of the pool goes on; a worker's call returns.
CdRelease(t) ==
    /\ pc[t] = "cd_release"
    /\ socks' = IF conns[loc[t].sock].csock # NIL
                THEN [socks EXCEPT ![conns[loc[t].sock].csock].state = "released"]
                ELSE socks
    /\ conns' = [conns EXCEPT ![loc[t].sock] = [NoConn EXCEPT !.state = "freed"]]
    /\ IF loc[t].op = "destroy_connections"
       THEN /\ pc' = [pc EXCEPT ![t] = "hd_loop"]
            /\ UNCHANGED <<loc, last>>
       ELSE Return(t, 0, 0)
    /\ UNCHANGED <<herder_list, herders, eps, items, caches, hthread, cb, snap,
                   errs>>

\* ----------------------------------------------- tcpha_fe_herder_run
\* One turn of the while loop (lines 331-355): out when kthread_stop asked
\* for it, else tcp_epoll_wait; its -1 is not 0 and the for loop, i from 0
\* while i < numevents, has nothing to walk.
\* The jobs of one turn (lines 338-353): one event_process for each i from
\* 0 below numevents, carrying conns[i] and the herder, handed to
\* queue_work.  (Its events are copied from conn->events, a field nothing
\* in these files writes.)
EventJobs(h, numevents, sockets) ==
    [i \in 1..(IF numevents > 0 THEN numevents ELSE 0) |->
        [conn |-> CHOOSE s \in sockets : Cardinality({r \in sockets : r < s}) = i - 1,
         herder |-> h]]

HerderRun(h) ==
    /\ hthread[h] = "run"
    /\ LET waited == tcp_epoll_wait(h, MAX_EVENTS)
           numevents == waited.ret
       IN  IF herders[h].should_stop
           THEN /\ hthread' = [hthread EXCEPT ![h] = "exited"]
                /\ herders' = herders
           ELSE /\ hthread' = hthread
                /\ herders' = IF numevents = 0 THEN herders
                              ELSE [herders EXCEPT ![h].processor_work =
                                       @ \o EventJobs(h, numevents, waited.sockets)]
    /\ UNCHANGED <<herder_list, eps, items, socks, conns, caches, pc,
                   loc, cb, last, snap, errs>>

\* ------------------------------------------------ destroy_connections
\* destroy_connections is called once (line 297), on a list that
\* init_connections has set up
DestroyConnections(t) ==
    /\ t = "td"
    /\ pc[t] = "idle"
    /\ \/ last[t].op = "none"
       \/ last[t].op = "init_connections" /\ last[t].ret = 0
    /\ loc' = [loc EXCEPT ![t] = [NoLoc EXCEPT !.op = "destroy_connections"]]
    /\ pc' = [pc EXCEPT ![t] = "dh_next"]
    /\ UNCHANGED <<herder_list, herders, eps, items, socks, conns, caches,
                   hthread, cb, last, snap, errs>>

\* destroy_connection_herders: the next herder of the list, and
\* set_bit(0, &herder->eventpoll->should_wake) (lines 278-285); after the
\* last one the caller (destroy_connections, or init_connections at its
\* error labels) goes on
DhNext(t) ==
    /\ pc[t] = "dh_next"
    /\ IF herder_list = <<>>
       THEN /\ pc' = [pc EXCEPT ![t] = IF loc[t].op = "init_connections"
                                       THEN "ic_fail" ELSE "dc_caches"]
            /\ UNCHANGED <<loc, eps>>
       ELSE /\ loc' = [loc EXCEPT ![t].herder = Head(herder_list)]
            /\ eps' = [eps EXCEPT ![Head(herder_list)].should_wake = TRUE]
            /\ pc' = [pc EXCEPT ![t] = "dh_stop"]
    /\ UNCHANGED <<herder_list, herders, items, socks, conns, caches, hthread,
                   cb, last, snap, errs>>

\* kthread_stop(herder->task) asks the thread to stop ... (line 287).  A
\* task that is the error value of kthread_create is no task_struct:
\* kthread_stop reads through it and the kernel stops the caller.
DhStop(t) ==
    /\ pc[t] = "dh_stop"
    /\ IF hthread[loc[t].herder] = "err"
       THEN /\ pc' = [pc EXCEPT ![t] = "oops"]
            /\ errs' = errs \cup {"bad_task"}
            /\ herders' = herders
       ELSE /\ herders' = [herders EXCEPT ![loc[t].herder].should_stop = TRUE]
            /\ pc' = [pc EXCEPT ![t] = "dh_join"]
            /\ errs' = errs
    /\ UNCHANGED <<herder_list, eps, items, socks, conns, caches, loc, hthread,
                   cb, last, snap>>

\* ... and returns when the thread has left tcpha_fe_herder_run; then
\* herder_destroy takes write_lock(&herder->pool_lock) (line 86)
DhJoin(t) ==
    /\ pc[t] = "dh_join"
    /\ hthread[loc[t].herder] = "exited"
    /\ herders[loc[t].herder].pool_lock = "free"
    /\ herders' = [herders EXCEPT ![loc[t].herder].pool_lock = t]
    /\ pc' = [pc EXCEPT ![t] = "hd_loop"]
    /\ UNCHANGED <<herder_list, eps, items, socks, conns, caches, loc, hthread,
                   cb, last, snap, errs>>

\* herder_destroy, the walk of conn_pool (lines 88-94): the next
\* connection goes to tcpha_fe_conn_destroy with pool_lock held; after the
\* last one list_del(&herder->conn_pool) and write_unlock
HdLoop(t) ==
    /\ pc[t] = "hd_loop"
    /\ IF herders[loc[t].herder].conn_pool # <<>>
       THEN /\ loc' = [loc EXCEPT ![t].sock = Head(herders[loc[t].herder].conn_pool)]
            /\ pc' = [pc EXCEPT ![t] = "er_find"]
            /\ herders' = herders
       ELSE /\ herders' = [herders EXCEPT ![loc[t].herder].pool_lock = "free"]
            /\ pc' = [pc EXCEPT ![t] = "hd_del"]
            /\ loc' = loc
    /\ UNCHANGED <<herder_list, eps, items, socks, conns, caches, hthread, cb,
                   last, snap, errs>>

\* list_del(&herder->herder_list) (line 98)
HdDel(t) ==
    /\ pc[t] = "hd_del"
    /\ herder_list' = RemoveFromSeq(herder_list, loc[t].herder)
    /\ pc' = [pc EXCEPT ![t] = "hd_epoll"]
    /\ UNCHANGED <<herders, eps, items, socks, conns, caches, loc, hthread, cb,
                   last, snap, errs>>

\* tcp_epoll_destroy (lines 96-103): the item cache goes with its last
\* user, the eventpoll is freed; the items are not looked at
tcp_epoll_destroy(cs) ==
    [cs EXCEPT !.item_cache_use = @ - 1,
               !.tcp_ep_item_cachep = IF cs.item_cache_use - 1 = 0
                                      THEN "destroyed" ELSE @]

\* tcp_epoll_destroy(herder->eventpoll) and herder_free (lines 100-103)
HdFree(t) ==
    /\ pc[t] = "hd_epoll"
    /\ caches' = tcp_epoll_destroy(caches)
    /\ eps' = [eps EXCEPT ![loc[t].herder].alive = FALSE]
    /\ herders' = [herders EXCEPT ![loc[t].herder].alive = FALSE]
    /\ pc' = [pc EXCEPT ![t] = "dh_next"]
    /\ UNCHANGED <<herder_list, items, socks, conns, loc, hthread, cb, last,
                   snap, errs>>

\* atomic_dec_and_test(&mem_cache_use) and the two kmem_cache_destroy
\* (lines 302-306)
DcCaches(t) ==
    /\ pc[t] = "dc_caches"
    /\ caches' = [caches EXCEPT
           !.mem_cache_use = @ - 1,
           !.tcpha_fe_conn_cachep =
               IF caches.mem_cache_use - 1 = 0 THEN "destroyed" ELSE @,
           !.work_struct_cachep =
               IF caches.mem_cache_use - 1 = 0 THEN "destroyed" ELSE @]
    /\ Return(t, 0, 0)
    /\ UNCHANGED <<herder_list, herders, eps, items, socks, conns, hthread, cb,
                   snap, errs>>

\* --------------------------------------------------- init_connections
\* The caches when n herder lists have been set up by init_connections (one
\* eventpoll for each cpu of each) and none torn down: none made and the
\* counters 0 (the statics of both files) when n is 0.
CachesOf(n) ==
    [tcpha_fe_conn_cachep |-> IF n = 0 THEN "null" ELSE "live",
     work_struct_cachep |-> IF n = 0 THEN "null" ELSE "live",
     tcp_ep_item_cachep |-> IF n = 0 THEN "null" ELSE "live",
     mem_cache_use |-> n, item_cache_use |-> n * NumCpus, other_lists |-> n]

\* Before init_connections of the modelled list: no herder, the list empty,
\* the caches as the lists set up before left them.
Boot(cs) ==
    /\ herder_list = <<>>
    /\ herders = [h \in Herders |-> [InitHerder EXCEPT !.alive = FALSE]]
    /\ eps = [h \in Herders |-> [InitEventpoll EXCEPT !.alive = FALSE]]
    /\ items = [i \in Items |-> NoItem]
    /\ socks = [s \in Socks |-> NoSock]
    /\ conns = [c \in Socks |-> NoConn]
    /\ caches = cs
    /\ pc = [t \in Threads |-> "idle"]
    /\ loc = [t \in Threads |-> NoLoc]
    /\ hthread = [h \in Herders |-> "none"]
    /\ cb = [pc |-> "idle", queue |-> <<>>, mask |-> {}]
    /\ last = [t \in Threads |-> NoLast]
    /\ snap = NoSnap
    /\ errs = {}

\* Before the first init_connections: no cache, no herder, the list empty.
BootInit == Boot(CachesOf(0))

\* The modelled list comes first or after others
CacheInit == \E n \in 0..MaxOtherLists : Boot(CachesOf(n))

\* kmem_cache_create for a pointer that is NULL (lines 134-137, 141-146):
\* made gives the cache, else NULL; a pointer that is not NULL stays
CacheCreate(cachep, made) ==
    IF cachep = "null" THEN (IF made THEN "live" ELSE "null") ELSE cachep

\* init_connections is called once: atomic_inc(&mem_cache_use) and the two
\* caches (lines 132-149), each made when its pointer is NULL.  Without the
\* first cache return -ENOMEM; without the second errorWorkAlloc: the first
\* is destroyed, the counter lowered, return -ENOMEM.  Then
\* herder_list_init and write_lock (lines 151-152).
InitConnections(t) ==
    /\ t = "td"
    /\ pc[t] = "idle"
    /\ last[t].op = "none"
    /\ \E conn_cache, work_cache \in BOOLEAN :
         LET conn_cachep == CacheCreate(caches.tcpha_fe_conn_cachep, conn_cache)
             work_cachep == CacheCreate(caches.work_struct_cachep, work_cache)
         IN
         IF conn_cachep = "null"
         THEN /\ caches' = [caches EXCEPT !.mem_cache_use = @ + 1]
              /\ pc' = pc
              /\ loc' = loc
              /\ last' = [last EXCEPT ![t] = [NoLast EXCEPT !.op = "init_connections",
                                                            !.ret = -ENOMEM]]
         ELSE IF work_cachep = "null"
         THEN /\ caches' = [caches EXCEPT !.tcpha_fe_conn_cachep = "destroyed"]
              /\ pc' = pc
              /\ loc' = loc
              /\ last' = [last EXCEPT ![t] = [NoLast EXCEPT !.op = "init_connections",
                                                            !.ret = -ENOMEM]]
         ELSE /\ caches' = [caches EXCEPT !.mem_cache_use = @ + 1,
                                          !.tcpha_fe_conn_cachep = conn_cachep,
                                          !.work_struct_cachep = work_cachep]
              /\ pc' = [pc EXCEPT ![t] = "ic_herder"]
              /\ loc' = [loc EXCEPT ![t] = [NoLoc EXCEPT !.op = "init_connections",
                                                         !.herder = 1]]
              /\ last' = last
    /\ UNCHANGED <<herder_list, herders, eps, items, socks, conns, hthread, cb,
                   snap, errs>>

\* herder_init for the next cpu (lines 50-74, 157-162).  herder_alloc is
\* not tested: without a herder tcp_epoll_init is handed &h->eventpoll of a
\* NULL h and writes through it.  When tcp_epoll_init fails the herder is
\* freed and init_connections goes to errorHerderAlloc.  Else the eventpoll
\* is set up, the item cache made for its first user, the herder set up and
\* put at the head of the list.
IcHerder(t) ==
    /\ pc[t] = "ic_herder"
    /\ \E outcome \in {"ok", "no_herder", "no_eventpoll"} :
         LET h == loc[t].herder IN
         IF outcome = "no_herder"
         THEN /\ Oops(t)
              /\ UNCHANGED <<herder_list, herders, eps, caches>>
         ELSE IF outcome = "no_eventpoll"
         THEN /\ pc' = [pc EXCEPT ![t] = "dh_next"]
              /\ UNCHANGED <<herder_list, herders, eps, caches, errs>>
         ELSE /\ herders' = [herders EXCEPT ![h] = InitHerder]
              /\ eps' = [eps EXCEPT ![h] = InitEventpoll]
              /\ caches' = [caches EXCEPT !.item_cache_use = @ + 1,
                                          !.tcp_ep_item_cachep =
                                              IF caches.item_cache_use + 1 = 1
                                              THEN "live" ELSE @]
              /\ herder_list' = <<h>> \o herder_list
              /\ pc' = [pc EXCEPT ![t] = "ic_thread"]
              /\ errs' = errs
    /\ UNCHANGED <<items, socks, conns, loc, hthread, cb, last, snap>>

\* kthread_create, kthread_bind and wake_up_process (lines 166-172); with
\* an error value for the task errHerderProc, which is errorHerderAlloc.
\* After the last cpu write_unlock and return 0 (lines 174-176).
IcThread(t) ==
    /\ pc[t] = "ic_thread"
    /\ \E created \in BOOLEAN :
         LET h == loc[t].herder IN
         IF ~created
         THEN /\ hthread' = [hthread EXCEPT ![h] = "err"]
              /\ pc' = [pc EXCEPT ![t] = "dh_next"]
              /\ UNCHANGED <<loc, last>>
         ELSE /\ hthread' = [hthread EXCEPT ![h] = "run"]
              /\ IF h < NumCpus
                 THEN /\ loc' = [loc EXCEPT ![t].herder = h + 1]
                      /\ pc' = [pc EXCEPT ![t] = "ic_herder"]
                      /\ last' = last
                 ELSE Return(t, 0, 0)
    /\ UNCHANGED <<herder_list, herders, eps, items, socks, conns, caches, cb,
                   snap, errs>>

\* errorHerderAlloc after destroy_connection_herders: both caches
\* destroyed, atomic_dec(&mem_cache_use), return -ENOMEM (lines 182-186)
IcFail(t) ==
    /\ pc[t] = "ic_fail"
    /\ caches' = [caches EXCEPT !.mem_cache_use = @ - 1,
                                !.tcpha_fe_conn_cachep = "destroyed",
                                !.work_struct_cachep = "destroyed"]
    /\ Return(t, -ENOMEM, 0)
    /\ UNCHANGED <<herder_list, herders, eps, items, socks, conns, hthread, cb,
                   snap, errs>>

\* ------------------------------------- the eventpoll interface, called
\* the eventpoll the interface is driven on
TheEp == 1

\* the index as it is linked: the root and each linked item's socket,
\* children, parent and colour
IndexShape(h) ==
    [root |-> eps[h].hash_root,
     nodes |-> [i \in Index(h) |->
                   <<items[i].sock, items[i].rb_left, items[i].rb_right,
                     items[i].rb_parent, items[i].rb_color>>]]

\* the linked items of herder h's index whose socket has the endpoint of s
SameKey(h, s) == { i \in Index(h) : socks[items[i].sock].key = socks[s].key }

\* the sockets a wait on herder h's eventpoll has to report: their item is
\* on the ready list and their state meets the item's flags
Due(h) ==
    { items[i].sock : i \in { j \in SeqToSet(eps[h].ready_list) :
                                  tcp_epoll_check_events(j) # {} } }

\* what tcp_epoll_insert(eventpoll, s, POLLIN) finds when it is called
CallInsert(t, s) ==
    /\ loc' = [loc EXCEPT ![t] = [NoLoc EXCEPT !.op = "ep_insert", !.sock = s,
                                               !.herder = TheEp,
                                               !.flags = {POLLIN}]]
    /\ pc' = [pc EXCEPT ![t] = "ei_alloc"]

\* tcp_epoll_insert is called for a socket the eventpoll has seen before
EpInsert(t, s) ==
    /\ pc[t] = "idle"
    /\ s <= MaxEpSocks
    /\ socks[s].state = "open"
    /\ CallInsert(t, s)
    /\ snap' = [sock |-> s, index |-> IndexShape(TheEp),
                ready |-> eps[TheEp].ready_list, sleep |-> socks[s].sk_sleep,
                present |-> SameKey(TheEp, s) # {},
                registered |-> \E i \in Index(TheEp) : items[i].sock = s,
                removed |-> FALSE]
    /\ UNCHANGED <<herder_list, herders, eps, items, socks, conns, caches,
                   hthread, cb, last, errs>>

\* tcp_epoll_insert is called for a new socket with remote endpoint key
EpInsertNew(t) ==
    /\ pc[t] = "idle"
    /\ FreshSock(MaxEpSocks) # NIL
    /\ \E key \in Keys, ready \in Readiness :
         LET s == FreshSock(MaxEpSocks) IN
         /\ socks' = [socks EXCEPT ![s] = [state |-> "open", key |-> key,
                                           poll |-> ready, sk_sleep |-> <<>>]]
         /\ CallInsert(t, s)
         /\ snap' = [sock |-> s, index |-> IndexShape(TheEp),
                     ready |-> eps[TheEp].ready_list, sleep |-> <<>>,
                     present |-> \E i \in Index(TheEp) :
                                     socks[items[i].sock].key = key,
                     registered |-> FALSE, removed |-> FALSE]
    /\ UNCHANGED <<herder_list, herders, eps, items, conns, caches, hthread, cb,
                   last, errs>>

\* tcp_epoll_remove(eventpoll, s) is called
EpRemove(t, s) ==
    /\ pc[t] = "idle"
    /\ s <= MaxEpSocks
    /\ socks[s].state = "open"
    /\ loc' = [loc EXCEPT ![t] = [NoLoc EXCEPT !.op = "ep_remove", !.sock = s,
                                               !.herder = TheEp]]
    /\ pc' = [pc EXCEPT ![t] = "er_find"]
    /\ UNCHANGED <<herder_list, herders, eps, items, socks, conns, caches,
                   hthread, cb, last, snap, errs>>

\* tcp_epoll_wait(eventpoll, sockets, maxevents, timeout) is called and
\* returns
EpWait(t, maxevents) ==
    /\ pc[t] = "idle"
    /\ last' = [last EXCEPT ![t] =
                   [NoLast EXCEPT !.op = "ep_wait",
                                  !.ret = tcp_epoll_wait(TheEp, maxevents).ret,
                                  !.out = tcp_epoll_wait(TheEp, maxevents).sockets,
                                  !.maxevents = maxevents,
                                  !.due = Due(TheEp)]]
    /\ UNCHANGED <<herder_list, herders, eps, items, socks, conns, caches, pc,
                   loc, hthread, cb, snap, errs>>

\* ------------------------------------------------------ specifications
\* the steps inside tcp_epoll_insert and tcp_epoll_remove
EpStep(t) ==
    \/ EiAlloc(t)
    \/ EiHash(t)
    \/ EiCheck(t)
    \/ EiAddWait(t)
    \/ ErFind(t)
    \/ ErReturn(t)

\* the steps inside tcpha_fe_conn_create and tcpha_fe_conn_destroy
ConnStep(t) ==
    \/ CcScan(t)
    \/ CcLock(t)
    \/ CcLink(t)
    \/ CcInc(t)
    \/ CcUnlock(t)
    \/ CdLock(t)
    \/ CdDel(t)
    \/ CdUnlock(t)
    \/ CdRelease(t)

\* the steps of destroy_connections
Teardown(t) ==
    \/ DestroyConnections(t)
    \/ DhNext(t)
    \/ DhStop(t)
    \/ DhJoin(t)
    \/ HdLoop(t)
    \/ HdDel(t)
    \/ HdFree(t)
    \/ DcCaches(t)
    \/ EpStep(t)
    \/ ConnStep(t)

Callback ==
    \/ CbGet
    \/ CbCheck
    \/ CbReturn

Next ==
    \/ \E t \in AppThreads : ConnCreate(t)
    \/ \E t \in AppThreads, h \in Herders, c \in 1..MaxSocks : ConnDestroy(t, h, c)
    \/ \E t \in AppThreads : ConnStep(t)
    \/ \E t \in AppThreads : EpStep(t)
    \/ \E h \in Herders : HerderRun(h)

\* the pool at work: connections come and go, nobody tears the pool down
Spec == Init /\ [][Next]_vars

\* a dispatch that finds the herder list empty happens only once teardown
\* has taken the herders off the list
PoolNext ==
    \/ Next
    \/ \E t \in AppThreads : CcNoHerder(t)
    \/ Teardown("td")

\* the pool at work until destroy_connections is called, and from then on
PoolSpec == Init /\ [][PoolNext]_vars

\* the threads are scheduled: a thread that can take a step takes one
FairSpec ==
    /\ PoolSpec
    /\ WF_vars(Teardown("td"))
    /\ \A h \in Herders : WF_vars(HerderRun(h))
    /\ \A t \in AppThreads : WF_vars(ConnStep(t) \/ CcNoHerder(t) \/ EpStep(t))

EngineNext ==
    \/ \E t \in AppThreads : EpInsertNew(t)
    \/ \E t \in AppThreads, s \in 1..MaxEpSocks : EpInsert(t, s)
    \/ \E t \in AppThreads, s \in 1..MaxEpSocks : EpRemove(t, s)
    \/ \E t \in AppThreads, maxevents \in {0, 1, MAX_EVENTS} : EpWait(t, maxevents)
    \/ \E t \in AppThreads : EpStep(t)
    \/ \E s \in 1..MaxWakeSocks, ready \in Readiness : SockEvent(s, ready)
    \/ Callback

EngineSpec == Init /\ [][EngineNext]_vars

\* the pool at work with its threads scheduled: a herder's kthread keeps
\* turning its loop, a call that can take a step takes it
RunSpec ==
    /\ Spec
    /\ \A h \in Herders : WF_vars(HerderRun(h))
    /\ \A t \in AppThreads : WF_vars(ConnStep(t) \/ EpStep(t))

\* two cpus call tcp_epoll_insert on the same eventpoll, each for sockets
\* of its own
RaceNext ==
    \/ \E t \in Dispatchers : EpInsertNew(t)
    \/ \E t \in Dispatchers : EiAlloc(t)
    \/ \E t \in Dispatchers : EiDescend(t)
    \/ \E t \in Dispatchers : EiLink(t)
    \/ \E t \in Dispatchers : EiCheck(t)
    \/ \E t \in Dispatchers : EiAddWait(t)

RaceSpec == Init /\ [][RaceNext]_vars

\* the steps of init_connections, destroy_connection_herders at its error
\* labels included
InitStep(t) ==
    \/ InitConnections(t)
    \/ IcHerder(t)
    \/ IcThread(t)
    \/ IcFail(t)
    \/ DhNext(t)
    \/ DhStop(t)
    \/ DhJoin(t)
    \/ HdLoop(t)
    \/ HdDel(t)
    \/ HdFree(t)

\* init_connections has returned 0: the pool is in use
PoolUp ==
    /\ pc["td"] = "idle"
    /\ last["td"].op = "init_connections"
    /\ last["td"].ret = 0

InitNext ==
    \/ InitStep("td")
    \/ \E h \in Herders : HerderRun(h)
    \/ PoolUp /\ \E t \in AppThreads : ConnCreate(t)
    \/ PoolUp /\ \E t \in AppThreads, h \in Herders, c \in 1..MaxSocks :
                     ConnDestroy(t, h, c)
    \/ \E t \in AppThreads : ConnStep(t)
    \/ \E t \in AppThreads : EpStep(t)

\* the module from its load: init_connections, and the pool at work once
\* it has returned 0
InitSpec == BootInit /\ [][InitNext]_vars

\* the life of one herder list beside the lists set up before it:
\* init_connections, the pool at work once it has returned 0, and
\* destroy_connections
CacheNext ==
    \/ InitStep("td")
    \/ PoolUp /\ DestroyConnections("td")
    \/ DcCaches("td")
    \/ EpStep("td")
    \/ ConnStep("td")
    \/ \E h \in Herders : HerderRun(h)
    \/ PoolUp /\ \E t \in AppThreads : ConnCreate(t)
    \/ PoolUp /\ \E t \in AppThreads, h \in Herders, c \in 1..MaxSocks :
                     ConnDestroy(t, h, c)
    \/ \E t \in AppThreads : ConnStep(t)
    \/ \E t \in AppThreads : EpStep(t)

CacheSpec == CacheInit /\ [][CacheNext]_vars

\* -------------------------------------------------------------- claims
\* no thread is inside an interface call (a stopped thread is inside none)
Quiet == \A t \in AppThreads : pc[t] \in {"idle", "oops"}

\* connections tcpha_fe_conn_create has allocated so far
Created == { c \in 1..MaxSocks : conns[c].state # "none" }

\* connections tcpha_fe_conn_destroy has freed
Destroyed == { c \in 1..MaxSocks : conns[c].state = "freed" }

PoolLen(h) == Len(herders[h].conn_pool)

\* C1: with every herder starting empty and no connection removed, after
\* N dispatches each of the H herders holds floor(N/H) or ceil(N/H)
\* connections; and at every moment the pool_size counters of two herders
\* differ by at most 1.
C1_LoadBalanced ==
    /\ \A g, h \in Herders : herders[g].pool_size - herders[h].pool_size <= 1
    /\ (Quiet /\ Destroyed = {}) =>
          \A h \in Herders :
              PoolLen(h) \in { Cardinality(Created) \div NumCpus,
                               (Cardinality(Created) + NumCpus - 1) \div NumCpus }

\* every socket of the run was dispatched, none removed, and the herders
\* do not all hold the same number
C1_Witness ==
    /\ Quiet
    /\ Destroyed = {}
    /\ Cardinality(Created) = MaxSocks
    /\ \A t \in AppThreads : last[t].op = "conn_create" /\ last[t].ret = 0
    /\ \E h \in Herders : PoolLen(h) = (MaxSocks + NumCpus - 1) \div NumCpus

\* C2: whenever nobody holds herder h's pool_lock, pool_size of h is the
\* number of connections linked in conn_pool of h.
C2_PoolSizeIsPoolLength ==
    \A h \in Herders :
        herders[h].pool_lock = "free" => herders[h].pool_size = PoolLen(h)

\* the connections of herder h's pool and the items of its index match one
\* to one
PoolMatchesIndex(h) ==
    /\ \A c \in SeqToSet(herders[h].conn_pool) :
           Cardinality({ i \in Index(h) : items[i].sock = c }) = 1
    /\ \A i \in Index(h) : items[i].sock \in SeqToSet(herders[h].conn_pool)

\* C3: after every completed dispatch (nothing destroyed, no teardown)
\* each connection of a herder's pool has exactly one item in the herder's
\* index and each item of the index one connection of the pool, also when
\* the tcp_epoll_insert of the dispatch failed.
C3_PoolMatchesIndex ==
    (/\ \A t \in AppThreads : pc[t] = "idle" /\ last[t].op = "conn_create"
     /\ Destroyed = {})
        => \A h \in Herders : PoolMatchesIndex(h)

\* destroy_connections has returned 0, no herder is left on the list or
\* allocated, and no connection with an open socket is left in a pool
TeardownDone ==
    /\ pc["td"] = "idle"
    /\ last["td"].op = "destroy_connections"
    /\ last["td"].ret = 0
    /\ herder_list = <<>>
    /\ \A h \in Herders :
           /\ ~herders[h].alive
           /\ \A c \in SeqToSet(herders[h].conn_pool) : socks[c].state = "released"

\* C4: once destroy_connections is called it returns, with every herder
\* off the list and freed and every connection's socket released.
C4_TeardownTerminates ==
    (loc["td"].op = "destroy_connections") ~> TeardownDone

\* C5: a freed item is never touched, and once tcp_epoll_remove(S) has
\* returned with the wakeup callback of S running, and the callback is
\* over, the item of S is freed (no live item of S, no reference left).
C5_RemoveFreesItem ==
    /\ "uaf_item" \notin errs
    /\ \A t \in AppThreads :
           (/\ pc[t] = "idle"
            /\ last[t].op = "ep_remove"
            /\ last[t].raced
            /\ cb.pc = "idle")
               => \A i \in Items : ~(items[i].live /\ items[i].sock = last[t].sock)

\* C6: between invocations of the wakeup callback the usecnt of every
\* item of the index is 1, the value tcp_ep_item_alloc set.
C6_WakeupKeepsUsecnt ==
    cb.pc = "idle" => \A i \in Index(TheEp) : items[i].usecnt = 1

\* C7: a wait that is given room for them reports every socket whose item
\* is on the ready list and whose state still meets its flags.
C7_WaitReportsReady ==
    \A t \in AppThreads :
        (/\ pc[t] = "idle"
         /\ last[t].op = "ep_wait"
         /\ last[t].maxevents >= Cardinality(last[t].due))
            => last[t].due \subseteq last[t].out

\* C8: when the wakeup callback of an inserted item finds the socket's new
\* state to meet the item's flags, the item is on the ready list when the
\* callback returns.
C8_WakeupQueuesItem ==
    (cb.pc = "ret" /\ cb.mask # {})
        => Head(cb.queue) \in SeqToSet(eps[TheEp].ready_list)

\* C9: an insert called for a socket whose remote endpoint is already in
\* the index returns -1, leaves one item of that endpoint in the index,
\* leaves the ready list and the socket's sleep queue as they were and
\* frees the item it allocated.
C9_DuplicateInsert ==
    \A t \in AppThreads :
        (/\ pc[t] = "idle"
         /\ last[t].op = "ep_insert"
         /\ snap.sock = last[t].sock
         /\ snap.present)
            => /\ last[t].ret = -1
               /\ Cardinality(SameKey(TheEp, last[t].sock)) = 1
               /\ eps[TheEp].ready_list = snap.ready
               /\ socks[last[t].sock].sk_sleep = snap.sleep
               /\ last[t].item # NIL
               /\ ~items[last[t].item].live

\* C10: insert(s) for a socket that was not registered, then remove(s),
\* leaves the index and the ready list as they were before the insert.
C10_InsertRemoveRoundTrip ==
    \A t \in AppThreads :
        (/\ pc[t] = "idle"
         /\ last[t].op = "ep_remove"
         /\ snap.sock = last[t].sock
         /\ snap.removed
         /\ ~snap.registered)
            => /\ IndexShape(TheEp) = snap.index
               /\ eps[TheEp].ready_list = snap.ready

\* the entries item i has on the sleep queue of its socket
WaitEntries(i) ==
    { k \in 1..Len(socks[items[i].sock].sk_sleep) :
          socks[items[i].sock].sk_sleep[k] = i }

\* C11: between calls every item of a herder's index has exactly one entry
\* on the sleep queue of its socket; a socket that was released has no
\* entry left on its sleep queue, and no sleep queue holds an entry of a
\* freed item.
C11_WaitEntryDetached ==
    /\ Quiet => \A h \in Herders : \A i \in Index(h) :
                    Cardinality(WaitEntries(i)) = 1
    /\ \A s \in Socks : socks[s].state = "released" => socks[s].sk_sleep = <<>>
    /\ \A s \in Socks : \A k \in 1..Len(socks[s].sk_sleep) :
           items[socks[s].sk_sleep[k]].live

\* thread t has returned from tcpha_fe_conn_create with a negative value
\* and no herder, eventpoll or item was touched by the step
DispatchFailed(t) ==
    /\ pc'[t] = "idle"
    /\ last'[t].op = "conn_create"
    /\ last'[t].ret < 0
    /\ herders' = herders
    /\ eps' = eps
    /\ items' = items

\* C12: the step tcpha_fe_conn_create takes when its scan found the herder
\* list empty is a return with an error that touches no herder, pool or
\* eventpoll.
C12_EmptyListDispatch ==
    [][\A t \in AppThreads :
           (pc[t] = "cc_nolist" /\ pc'[t] # "cc_nolist") => DispatchFailed(t)]_vars

\* C13: a call of tcpha_fe_conn_create whose kmem_cache_alloc of the
\* connection fails (a socket is handed over, no connection comes to be)
\* returns -ENOMEM and leaves every herder's pool, pool_size and eventpoll
\* as they were.
C13_AllocFailureDispatch ==
    [][\A t \in AppThreads :
           (/\ pc[t] = "idle"
            /\ \E s \in 1..MaxSocks : socks[s].state = "none" /\ socks'[s].state = "open"
            /\ conns' = conns)
               => (DispatchFailed(t) /\ last'[t].ret = -ENOMEM)]_vars

\* init_connections has returned a value other than 0
InitFailed ==
    /\ pc["td"] = "idle"
    /\ last["td"].op = "init_connections"
    /\ last["td"].ret # 0

\* C14: init_connections always returns; when it fails it returns -ENOMEM
\* with no herder left on the list or allocated and no herder thread left
\* running, and kthread_stop is never called on a task that kthread_create
\* did not make.
C14_InitFailureClean ==
    /\ "bad_task" \notin errs
    /\ ~(pc["td"] = "oops" /\ loc["td"].op = "init_connections")
    /\ InitFailed =>
           /\ last["td"].ret = -ENOMEM
           /\ herder_list = <<>>
           /\ \A h \in Herders :
                  ~herders[h].alive /\ hthread[h] \in {"none", "exited"}

\* C15: a call of tcp_epoll_wait returns no more than maxevents; with
\* maxevents 0 it returns 0; with more than maxevents items on the ready
\* list it returns maxevents and leaves the others on the list.
C15_WaitBounded ==
    [][\A t \in AppThreads :
           (pc[t] = "idle" /\ last'[t].op = "ep_wait" /\ last'[t] # last[t]) =>
               LET maxevents == last'[t].maxevents
                   queued == Len(eps[TheEp].ready_list)
               IN  /\ last'[t].ret <= maxevents
                   /\ maxevents = 0 => last'[t].ret = 0
                   /\ queued > maxevents =>
                          /\ last'[t].ret = maxevents
                          /\ Len(eps'[TheEp].ready_list) = queued - maxevents]_vars

\* C16: in every interleaving of tcpha_fe_conn_create with
\* destroy_connections the dispatcher never locks, links into, counts in
\* or inserts into the eventpoll of a herder that herder_destroy has freed.
C16_NoDispatchOnFreedHerder == "uaf_herder" \notin errs

\* thread t waits for the pool_lock of a herder
WaitsForPoolLock(t) == pc[t] \in {"cc_lock", "cd_lock", "dh_join"}

\* C17: no thread asks for a lock it holds already: a thread that waits
\* for a herder's pool_lock is not the holder of that lock.
C17_NoLockHeldTwice ==
    \A t \in Threads :
        WaitsForPoolLock(t) => herders[loc[t].herder].pool_lock # t

\* C18: two calls of tcp_epoll_insert on one eventpoll are never both
\* between the walk and the linking of tcp_ep_hash_insert, where the index
\* is written; and, what the exclusion is for, when all calls have returned
\* every item an insert kept is in the index.
C18_IndexWritesExclusive ==
    /\ \A t1, t2 \in Dispatchers :
           (t1 # t2 /\ pc[t1] = "ei_link" /\ pc[t2] = "ei_link")
               => loc[t1].herder # loc[t2].herder
    /\ (\A t \in Dispatchers : pc[t] = "idle")
           => \A i \in Items : items[i].live => i \in Index(items[i].eventpoll)

Sign(n) == IF n < 0 THEN -1 ELSE IF n > 0 THEN 1 ELSE 0

\* the order the index is to have: by the 32-bit remote address (high half,
\* then low half), then by the 16-bit remote port; -1, 0 or 1
LexOrder(lk, rk) ==
    IF lk.daddr[1] # rk.daddr[1] THEN Sign(lk.daddr[1] - rk.daddr[1])
    ELSE IF lk.daddr[2] # rk.daddr[2] THEN Sign(lk.daddr[2] - rk.daddr[2])
    ELSE Sign(lk.dport - rk.dport)

\* the sockets that exist
OpenSocks == { s \in Socks : socks[s].state = "open" }

\* C19: for every two sockets tcp_cmp_sock is negative, zero or positive as
\* the first socket's (remote address, remote port) is below, equal to or
\* above the second's; in particular tcp_cmp_sock(a, b) and
\* tcp_cmp_sock(b, a) have opposite signs.
C19_ComparatorOrders ==
    \A a, b \in OpenSocks :
        /\ Sign(tcp_cmp_sock(a, b)) = LexOrder(socks[a].key, socks[b].key)
        /\ Sign(tcp_cmp_sock(a, b)) = -Sign(tcp_cmp_sock(b, a))

\* a job carrying the connection of socket s is on herder h's workqueue
JobFor(h, s) ==
    \E k \in 1..Len(herders[h].processor_work) :
        herders[h].processor_work[k].conn = s /\ herders[h].processor_work[k].herder = h

\* C20: when the item of a dispatched socket is on its herder's ready list
\* with the socket readable, the herder's run loop comes to submit a job
\* carrying that connection to the worker pool (unless the socket stops
\* being due first).
C20_ReadyItemGetsJob ==
    \A h \in Herders : \A s \in 1..MaxSocks :
        (s \in Due(h)) ~> (JobFor(h, s) \/ s \notin Due(h))

\* where destroy_connection_herders stands with herder h: the steps from
\* kthread_stop on, the walk of the shard in herder_destroy, the steps after
\* the walk
TdStopped == {"dh_stop", "dh_join"}

TdWalk == {"hd_loop", "er_find", "er_ret", "cd_lock", "cd_del", "cd_unlock",
           "cd_release"}

TdAfterWalk == {"hd_del", "hd_epoll"}

TdAt(h, where) ==
    /\ loc["td"].op = "destroy_connections"
    /\ loc["td"].herder = h
    /\ pc["td"] \in where

\* the items allocated for herder h's eventpoll
ItemsOf(h) == { i \in Items : items[i].live /\ items[i].eventpoll = h }

\* C21: teardown of a herder goes in this order: should-wake set, the
\* kthread stopped and joined, the eventpoll destroyed with all of its
\* items removed and freed, then the shard walked and each connection
\* destroyed, then the herder freed; when the herder is freed none of its
\* items is allocated any more.
C21_TeardownOrder ==
    \A h \in Herders :
        /\ TdAt(h, TdStopped \cup TdWalk \cup TdAfterWalk) => eps[h].should_wake
        /\ TdAt(h, TdWalk \cup TdAfterWalk) => hthread[h] = "exited"
        /\ TdAt(h, TdWalk) => (~eps[h].alive /\ ItemsOf(h) = {})
        /\ ~herders[h].alive => (~eps[h].alive /\ herders[h].conn_pool = <<>>)
        /\ ~herders[h].alive => ItemsOf(h) = {}

\* the three caches
CacheNames == {"tcpha_fe_conn_cachep", "work_struct_cachep", "tcp_ep_item_cachep"}

\* init_connections of the modelled list has returned an error
InitReturnedError ==
    /\ pc["td"] = "idle"
    /\ last["td"].op = "init_connections"
    /\ last["td"].ret # 0

\* C22: the caches exist while a herder list holds them, the modelled one
\* or another: neither a failed init_connections nor destroy_connections of
\* the modelled list destroys a cache another list still uses; after a
\* failed init_connections both use counters are what they were before it;
\* the item cache is not destroyed while items from it are allocated.
C22_CachesOutliveUsers ==
    /\ (caches.other_lists > 0 \/ PoolUp) =>
           \A c \in CacheNames : caches[c] = "live"
    /\ InitReturnedError =>
           /\ caches.mem_cache_use = caches.other_lists
           /\ caches.item_cache_use = caches.other_lists * NumCpus
    /\ caches.tcp_ep_item_cachep = "destroyed" => \A i \in Items : ~items[i].live

\* the items of herder h's index have pairwise distinct remote endpoints
DistinctKeys(h) ==
    \A i, j \in Index(h) :
        socks[items[i].sock].key = socks[items[j].sock].key => i = j

\* C23: with items of distinct endpoints put into the index by
\* tcp_ep_hash_insert, the walk of tcp_ep_hash_find for the socket of an
\* item of the index ends at that item, and for a socket whose endpoint no
\* item of the index has it ends with no item.
C23_FindAgreesWithInsert ==
    LET T == TreeOf(TheEp) IN
    DistinctKeys(TheEp) =>
        /\ \A i \in Index(TheEp) : tcp_ep_hash_find(T, items[i].sock) = i
        /\ \A s \in OpenSocks :
               SameKey(TheEp, s) = {} => tcp_ep_hash_find(T, s) = NIL

====
